---- MODULE Spec2Model ----
(***************************************************************************)
(* Model of well_map_dashboard.py: the tables built when the module is     *)
(* loaded (header_df, prod_df, df, wells_map, current_month_df) and the    *)
(* one Dash callback, update_dashboard, run by the browser sessions.       *)
(*                                                                         *)
(* Numbers.  Latitude and Longitude are integers counting a grid step of   *)
(* 1/(10 R) radians around a base point of latitude arccos(4/5), so one    *)
(* step of latitude is a tenth of a mile of arc.  Over a field of a few    *)
(* miles sin x = x and arcsin x = x to within 1e-6, and cos(phi) is the    *)
(* base latitude's 4/5.  A distance d (in miles) is carried exactly, as    *)
(* the integer 2500 d^2 = 25 (10 d)^2; squaring is monotone on the         *)
(* non-negative reals, so <= and < on distances are <= and < on these.     *)
(* An angle is carried exactly as a fraction [num, den] of a full turn.    *)
(***************************************************************************)
EXTENDS Integers, Sequences, FiniteSets, TLC

VARIABLES
    header_df,          \* the header CSV as read (line 19)
    prod_df,            \* the production CSV as read (line 18)
    df,                 \* merge of prod_df and header_df (line 30)
    wells_map,          \* de-duplicated header rows (line 31); written at line 158
    current_month_df,   \* df rows of the latest month (line 35)
    clickData,          \* per session: the map's clickData property
    radius,             \* per session: the radius dropdown's value
    pc,                 \* per session: position of its update_dashboard call
    center,             \* per session: local `center` of the running call
    dists,              \* per session: local `dists` of the running call
    filtered,           \* per session: local `filtered` of the call, kept after it returns
    out,                \* per session: what the last call returned or raised
    requests            \* requests the threaded server has accepted

vars == <<header_df, prod_df, df, wells_map, current_month_df,
          clickData, radius, pc, center, dists, filtered, out, requests>>

tables == <<header_df, prod_df, df, current_month_df>>

-----------------------------------------------------------------------------
(* Bounds of the model *)

MaxHeader == 3              \* rows of the header CSV
MaxProd == 2                \* rows of the production CSV
MaxHeaderThreaded == 2      \* the same, under the threaded server
MaxProdThreaded == 1
MaxRequests == 3            \* requests the threaded server accepts

Sessions == {"s1", "s2"}
Browser == "s1"     \* the session of the single-user specification

-----------------------------------------------------------------------------
(* Column names (lines 22-29) *)

well_id_col == "API_UWI"
lat_col == "Latitude"
lon_col == "Longitude"
prod_col == "Prod_BOE"
date_col == "ProducingMonth"

header_cols == {well_id_col, lat_col, lon_col, "ENVOperator", "ENVWellType", "WellName", "County"}

HeaderRow(id, lat, lon, op, name) ==
    [API_UWI |-> id, Latitude |-> lat, Longitude |-> lon, ENVOperator |-> op,
     ENVWellType |-> "OIL", WellName |-> name, County |-> "REEVES"]

ProdRow(id, month, boe) ==
    [API_UWI |-> id, ProducingMonth |-> month, Prod_BOE |-> boe]

(* The rows the two CSV files are drawn from.  From well 1 at (0,0): well 2 *)
(* is at exactly 1 mile and well 3 at exactly 10 miles; well 3 is 9.2 miles  *)
(* from well 2; well 2 has a second header row; well 9 has production but    *)
(* no header row.                                                           *)
HeaderPool ==
    { HeaderRow(1, 0, 0, "OpA", "W1"),
      HeaderRow(2, 6, 10, "OpA", "W2"),
      HeaderRow(2, 6, 10, "OpB", "W2-ST"),
      HeaderRow(3, 0, 125, "OpB", "W3") }

ProdPool ==
    { ProdRow(1, 2, 10), ProdRow(2, 2, 20), ProdRow(2, 1, 5), ProdRow(9, 3, 7) }

(* the files of at most n rows, no row of the pool twice *)
SeqsUpTo(S, n) ==
    { f \in UNION { [1..k -> S] : k \in 0..n } :
        \A i, j \in DOMAIN f : f[i] = f[j] => i = j }

-----------------------------------------------------------------------------
(* Table helpers (pandas) *)

RECURSIVE SumSeq(_)
SumSeq(s) == IF s = <<>> THEN 0 ELSE Head(s) + SumSeq(Tail(s))

RECURSIVE MaxSeq(_)
MaxSeq(s) == IF s = <<>> THEN 0
             ELSE LET m == MaxSeq(Tail(s)) IN IF Head(s) > m THEN Head(s) ELSE m

Column(frame, col) == [i \in 1..Len(frame) |-> frame[i][col]]

tolist(series) == series

isin(series, values) ==
    [i \in 1..Len(series) |-> \E j \in 1..Len(values) : values[j] = series[i]]

(* frame[mask]: the rows whose mask entry is true, in the frame's order *)
RECURSIVE MaskFrom(_, _, _)
MaskFrom(frame, mask, i) ==
    IF i > Len(frame) THEN <<>>
    ELSE (IF mask[i] THEN <<frame[i]>> ELSE <<>>) \o MaskFrom(frame, mask, i + 1)

Mask(frame, mask) == MaskFrom(frame, mask, 1)

(* frame[cols]: the frame restricted to the columns cols *)
Project(frame, cols) ==
    [i \in 1..Len(frame) |-> [c \in cols |-> frame[i][c]]]

(* frame.drop_duplicates(subset=col).reset_index(drop=True): the first row of each key *)
drop_duplicates(frame, col) ==
    Mask(frame, [i \in 1..Len(frame) |->
                    \A j \in 1..(i - 1) : frame[j][col] # frame[i][col]])

(* pd.merge(left, right, on=col, how='inner'): one row per matching pair, *)
(* in the order of the left keys                                          *)
RECURSIVE merge(_, _, _)
merge(left, right, col) ==
    IF left = <<>> THEN <<>>
    ELSE LET l == Head(left)
             hits == Mask(right, [j \in 1..Len(right) |-> right[j][col] = l[col]])
         IN [k \in 1..Len(hits) |-> l @@ hits[k]] \o merge(Tail(left), right, col)

(* frame.sort_values(col): stable insertion sort *)
RECURSIVE Insert(_, _, _)
Insert(row, sorted, col) ==
    IF sorted = <<>> THEN <<row>>
    ELSE IF row[col] < Head(sorted)[col] THEN <<row>> \o sorted
    ELSE <<Head(sorted)>> \o Insert(row, Tail(sorted), col)

RECURSIVE SortFrom(_, _, _)
SortFrom(frame, col, i) ==
    IF i = 0 THEN <<>> ELSE Insert(frame[i], SortFrom(frame, col, i - 1), col)

sort_values(frame, col) == SortFrom(frame, col, Len(frame))

-----------------------------------------------------------------------------
(* Module load (lines 17-35) *)

LoadDf(prod, header) == merge(prod, Project(header, header_cols), well_id_col)

LoadWellsMap(header) == drop_duplicates(Project(header, header_cols), well_id_col)

latest_month(d) == MaxSeq(Column(d, date_col))

LoadCurrentMonth(d) ==
    Mask(d, [i \in 1..Len(d) |-> d[i][date_col] = latest_month(d)])

-----------------------------------------------------------------------------
(* haversine (lines 9-15) *)

Miles(r) == 2500 * r * r

(* 5 cos(phi) over the field: the base latitude's 4/5 *)
cos5(phi) == 4

(* variant of haversine: dphi taken as lat2 + lat1 *)
haversine_dphi_sum(lat1, lon1, lat2, lon2) ==
    LET dphi == lat2 + lat1
        dlambda == lon2 - lon1
    IN 25 * dphi * dphi + cos5(lat1) * cos5(lat2) * dlambda * dlambda

(* dphi and dlambda in grid steps; a is the source's a times 100 R^2 * 25,  *)
(* and the result is (2 R arcsin(sqrt(a)))^2 * 2500, the distance as Miles  *)
(* carries it.                                                              *)
haversine(lat1, lon1, lat2, lon2) ==
    LET dphi == lat2 - lat1
        dlambda == lon2 - lon1
        a == 25 * dphi * dphi + cos5(lat1) * cos5(lat2) * dlambda * dlambda
    IN a

-----------------------------------------------------------------------------
(* clickData values *)

None == [points |-> <<>>]

(* a click on a well marker: custom_data of line 183, API_UWI third *)
WellPoint(row) ==
    [points |-> << [curveNumber |-> 0,
                    customdata |-> <<row["WellName"], row["ENVOperator"], row[well_id_col],
                                     row["ENVWellType"], row["County"]>>] >>]

(* a click on the circle trace of line 200: a point without customdata *)
CirclePoint == [points |-> << [curveNumber |-> 1] >>]

RadiusOptions == {1, 2, 5, 10}
DefaultRadius == 2

-----------------------------------------------------------------------------
(* update_dashboard, by parts *)

IndexError == [raised |-> "IndexError"]
Raised(x) == "raised" \in DOMAIN x

iloc0(frame) == IF frame = <<>> THEN IndexError ELSE frame[1]

(* lines 145-155 *)
SelectCenter(cd, wm) ==
    IF cd = None THEN iloc0(wm)
    ELSE LET point == cd.points[1] IN
         IF "customdata" \in DOMAIN point
         THEN LET api_val == point.customdata[3]
              IN iloc0(Mask(wm, [i \in 1..Len(wm) |-> wm[i][well_id_col] = api_val]))
         ELSE iloc0(wm)

(* line 157 *)
Distances(c, wm) ==
    [i \in 1..Len(wm) |-> haversine(c[lat_col], c[lon_col], wm[i][lat_col], wm[i][lon_col])]

(* line 158: wells_map['distance'] = dists *)
SetDistance(wm, d) ==
    [i \in 1..Len(wm) |-> ("distance" :> d[i]) @@ wm[i]]

(* variant of WithinRadius: dists < radius *)
WithinRadius_strict(d, r) == d < Miles(r)

(* line 159: the comparison dists <= radius *)
WithinRadius(d, r) == d <= Miles(r)

(* variant of FilterFrame: the mask taken from the table's 'distance' column *)
FilterFrame_column(wm, d, r) ==
    Mask(wm, [i \in 1..Len(wm) |-> WithinRadius(wm[i]["distance"], r)])

(* line 159: wells_map[dists <= radius] *)
FilterFrame(wm, d, r) ==
    Mask(wm, [i \in 1..Len(wm) |-> WithinRadius(d[i], r)])

(* variant of ColorArr: the selected well coloured before the in-radius wells *)
ColorArr_selected_first(wm, filtered_ids, c) ==
    LET in_radius_mask == isin(Column(wm, well_id_col), filtered_ids)
        selected_mask == [i \in 1..Len(wm) |-> wm[i][well_id_col] = c[well_id_col]]
    IN [i \in 1..Len(wm) |->
          IF Len(filtered_ids) > 0 /\ in_radius_mask[i] THEN "#64b5f6"
          ELSE IF selected_mask[i] THEN "#1976d2"
          ELSE "#a0522d"]

(* lines 162-169: brown, then the in-radius wells, then the selected well *)
ColorArr(wm, filtered_ids, c) ==
    LET in_radius_mask == isin(Column(wm, well_id_col), filtered_ids)
        selected_mask == [i \in 1..Len(wm) |-> wm[i][well_id_col] = c[well_id_col]]
    IN [i \in 1..Len(wm) |->
          IF selected_mask[i] THEN "#1976d2"
          ELSE IF Len(filtered_ids) > 0 /\ in_radius_mask[i] THEN "#64b5f6"
          ELSE "#a0522d"]

Segments == 100

(* variant of linspace: endpoint excluded *)
linspace_no_endpoint(start, stop, num) ==
    [k \in 1..num |-> [num |-> start * num + (k - 1) * (stop - start), den |-> num]]

(* np.linspace(start, stop, num), endpoint included; start and stop in turns *)
linspace(start, stop, num) ==
    [k \in 1..num |-> [num |-> start * (num - 1) + (k - 1) * (stop - start),
                       den |-> num - 1]]

(* lines 193-199: one vertex per angle, vertex i being                       *)
(* (lat + (radius/69) cos(angle_i), lon + (radius/(69 cos(lat))) sin(angle_i)), *)
(* kept as the centre, the radius and the angles that determine the vertices *)
CircleAngles == linspace(0, 1, Segments)

Circle(c, r) ==
    [lat |-> c[lat_col], lon |-> c[lon_col], radius |-> r, angles |-> CircleAngles]

(* lines 208-209 *)
TotalBoe(cm, filtered_ids) ==
    LET filtered_current == Mask(cm, isin(Column(cm, well_id_col), filtered_ids))
    IN SumSeq(Column(filtered_current, prod_col))

(* line 233 *)
WellProd(d, c) ==
    sort_values(Mask(d, [i \in 1..Len(d) |-> d[i][well_id_col] = c[well_id_col]]), date_col)

(* lines 160-258: what the call returns, from its locals and the tables *)
Render(c, f, r, wm, d, cm) ==
    LET filtered_ids == tolist(Column(f, well_id_col))
    IN [status |-> "ok",
        color_arr |-> ColorArr(wm, filtered_ids, c),
        circle |-> Circle(c, r),
        num_wells |-> Len(f),
        total_boe |-> TotalBoe(cm, filtered_ids),
        info |-> [col \in header_cols |-> c[col]],
        table_data |-> Project(f, header_cols),
        well_prod |-> WellProd(d, c)]

-----------------------------------------------------------------------------
(* State after the module is loaded and before any page is opened *)

NoLocal == [none |-> TRUE]

Init ==
    /\ header_df \in SeqsUpTo(HeaderPool, MaxHeader)
    /\ prod_df \in SeqsUpTo(ProdPool, MaxProd)
    /\ df = LoadDf(prod_df, header_df)
    /\ wells_map = LoadWellsMap(header_df)
    /\ current_month_df = LoadCurrentMonth(df)
    /\ clickData = [s \in Sessions |-> None]
    /\ radius = [s \in Sessions |-> DefaultRadius]
    /\ pc = [s \in Sessions |-> "closed"]
    /\ center = [s \in Sessions |-> NoLocal]
    /\ dists = [s \in Sessions |-> <<>>]
    /\ filtered = [s \in Sessions |-> <<>>]
    /\ out = [s \in Sessions |-> [status |-> "none"]]
    /\ requests = 0

(* What the browser lets the user do *)
CanOpen(s) == pc[s] = "closed"
CanClick(s) == pc[s] = "idle" /\ out[s].status = "ok"
CanSelect(s, r) == pc[s] = "idle" /\ r \in RadiusOptions /\ r # radius[s]

-----------------------------------------------------------------------------
(* update_dashboard run to its end without interruption (lines 143-258) *)

update_dashboard(s, cd, r) ==
    LET c == SelectCenter(cd, wells_map) IN
    /\ clickData' = [clickData EXCEPT ![s] = cd]
    /\ radius' = [radius EXCEPT ![s] = r]
    /\ pc' = [pc EXCEPT ![s] = "idle"]
    /\ IF Raised(c)
       THEN /\ out' = [out EXCEPT ![s] = [status |-> c.raised]]
            /\ filtered' = [filtered EXCEPT ![s] = <<>>]
            /\ UNCHANGED wells_map
       ELSE LET d == Distances(c, wells_map)
                wm == SetDistance(wells_map, d)
                f == FilterFrame(wm, d, r)
            IN /\ wells_map' = wm
               /\ filtered' = [filtered EXCEPT ![s] = f]
               /\ out' = [out EXCEPT ![s] = Render(c, f, r, wm, df, current_month_df)]
    /\ UNCHANGED <<tables, center, dists, requests>>

(* the callback's first run when the page is opened: no click, radius 2 *)
OpenPage(s) ==
    /\ CanOpen(s)
    /\ update_dashboard(s, None, DefaultRadius)

ClickWell(s, i) ==
    /\ CanClick(s)
    /\ i \in 1..Len(wells_map)
    /\ update_dashboard(s, WellPoint(wells_map[i]), radius[s])

ClickCircle(s) ==
    /\ CanClick(s)
    /\ update_dashboard(s, CirclePoint, radius[s])

SelectRadius(s, r) ==
    /\ CanSelect(s, r)
    /\ update_dashboard(s, clickData[s], r)

Next ==
    \/ OpenPage(Browser)
    \/ \E i \in 1..MaxHeader : ClickWell(Browser, i)
    \/ ClickCircle(Browser)
    \/ \E r \in RadiusOptions : SelectRadius(Browser, r)

Spec == Init /\ [][Next]_vars

-----------------------------------------------------------------------------
(* update_dashboard run by the threads of the server, one per request, any *)
(* other thread's statement between two of its own where wells_map is read *)
(* or written                                                              *)

(* lines 143-157: the centre and the distances, into locals *)
Begin(s, cd, r) ==
    LET c == SelectCenter(cd, wells_map) IN
    /\ requests < MaxRequests
    /\ requests' = requests + 1
    /\ clickData' = [clickData EXCEPT ![s] = cd]
    /\ radius' = [radius EXCEPT ![s] = r]
    /\ filtered' = [filtered EXCEPT ![s] = <<>>]
    /\ IF Raised(c)
       THEN /\ out' = [out EXCEPT ![s] = [status |-> c.raised]]
            /\ pc' = [pc EXCEPT ![s] = "idle"]
            /\ UNCHANGED <<center, dists>>
       ELSE /\ out' = [out EXCEPT ![s] = [status |-> "pending"]]
            /\ pc' = [pc EXCEPT ![s] = "L158"]
            /\ center' = [center EXCEPT ![s] = c]
            /\ dists' = [dists EXCEPT ![s] = Distances(c, wells_map)]
    /\ UNCHANGED <<tables, wells_map>>

(* line 158 *)
Line158(s) ==
    /\ pc[s] = "L158"
    /\ wells_map' = SetDistance(wells_map, dists[s])
    /\ pc' = [pc EXCEPT ![s] = "L159"]
    /\ UNCHANGED <<tables, clickData, radius, center, dists, filtered, out, requests>>

(* line 159, and lines 160-258, which read no column of wells_map that is *)
(* ever written and so run as one step with it                            *)
Line159(s) ==
    /\ pc[s] = "L159"
    /\ LET f == FilterFrame(wells_map, dists[s], radius[s])
       IN /\ filtered' = [filtered EXCEPT ![s] = f]
          /\ out' = [out EXCEPT ![s] = Render(center[s], f, radius[s], wells_map,
                                              df, current_month_df)]
    /\ pc' = [pc EXCEPT ![s] = "idle"]
    /\ center' = [center EXCEPT ![s] = NoLocal]
    /\ dists' = [dists EXCEPT ![s] = <<>>]
    /\ UNCHANGED <<tables, wells_map, clickData, radius, requests>>

OpenPageReq(s) ==
    /\ CanOpen(s)
    /\ Begin(s, None, DefaultRadius)

ClickWellReq(s, i) ==
    /\ CanClick(s)
    /\ i \in 1..Len(wells_map)
    /\ Begin(s, WellPoint(wells_map[i]), radius[s])

ClickCircleReq(s) ==
    /\ CanClick(s)
    /\ Begin(s, CirclePoint, radius[s])

SelectRadiusReq(s, r) ==
    /\ CanSelect(s, r)
    /\ Begin(s, clickData[s], r)

NextThreaded ==
    \E s \in Sessions :
        \/ OpenPageReq(s)
        \/ \E i \in 1..MaxHeader : ClickWellReq(s, i)
        \/ ClickCircleReq(s)
        \/ \E r \in RadiusOptions : SelectRadiusReq(s, r)
        \/ Line158(s)
        \/ Line159(s)

(* the same load, of smaller files *)
InitThreaded ==
    /\ Init
    /\ Len(header_df) <= MaxHeaderThreaded
    /\ Len(prod_df) <= MaxProdThreaded

SpecThreaded == InitThreaded /\ [][NextThreaded]_vars

-----------------------------------------------------------------------------
(* Properties *)

(* session s holds the result of a call that returned *)
Returned(s) == pc[s] = "idle" /\ out[s].status = "ok"

(* distance from the centre shown in a result to a row *)
DistTo(info, row) ==
    haversine(info[lat_col], info[lon_col], row[lat_col], row[lon_col])

HeaderRows(frame) == Project(frame, header_cols)

(* C1: the wells-table holds exactly the rows of wells_map whose haversine *)
(* distance to the centre is <= radius (a well at exactly the radius        *)
(* included), each once and in the order of wells_map.                      *)
C1_TableIsRadiusFilter ==
    \A s \in Sessions : Returned(s) =>
        LET T == out[s].table_data
            W == HeaderRows(wells_map)
            inside == { i \in 1..Len(W) : DistTo(out[s].info, W[i]) <= Miles(radius[s]) }
        IN \E f \in [1..Len(T) -> 1..Len(W)] :
              /\ \A a, b \in 1..Len(T) : a < b => f[a] < f[b]
              /\ { f[k] : k \in 1..Len(T) } = inside
              /\ \A k \in 1..Len(T) : T[k] = W[f[k]]

(* a result listing a well at exactly the radius and leaving a farther one out *)
C1_Witness ==
    \E s \in Sessions :
        /\ Returned(s)
        /\ \E k \in 1..Len(out[s].table_data) :
              DistTo(out[s].info, out[s].table_data[k]) = Miles(radius[s])
        /\ \E i \in 1..Len(wells_map) :
              DistTo(out[s].info, wells_map[i]) > Miles(radius[s])
        /\ Len(out[s].table_data) < Len(wells_map)

(* C2: wells_map, df and current_month_df keep the columns and the cell *)
(* values they had when loading finished, whatever the users do.        *)
C2_TablesReadOnly ==
    /\ wells_map = LoadWellsMap(header_df)
    /\ df = LoadDf(prod_df, header_df)
    /\ current_month_df = LoadCurrentMonth(df)

(* what update_dashboard(cd, r) returns when it is the first and only call *)
(* after the load                                                          *)
Alone(cd, r) ==
    LET wm0 == LoadWellsMap(header_df)
        c == SelectCenter(cd, wm0)
    IN IF Raised(c) THEN [status |-> c.raised]
       ELSE LET d == Distances(c, wm0)
                wm == SetDistance(wm0, d)
            IN Render(c, FilterFrame(wm, d, r), r, wm,
                      LoadDf(prod_df, header_df), LoadCurrentMonth(LoadDf(prod_df, header_df)))

SameResult(a, b) ==
    /\ a.status = b.status
    /\ a.status = "ok" =>
          /\ a.info = b.info
          /\ a.table_data = b.table_data
          /\ a.num_wells = b.num_wells
          /\ a.total_boe = b.total_boe

(* C3: the centre, the table rows (and so the in-radius set), the well count *)
(* and the total BOE a call returns depend on (clickData, radius) alone: they *)
(* are those the same call returns when run alone on the tables as loaded,    *)
(* and two sessions holding results for the same inputs hold the same ones,   *)
(* whatever calls ran before or between the statements of the call.           *)
C3_ResultDependsOnInputsOnly ==
    /\ \A s \in Sessions :
          (pc[s] = "idle" /\ out[s].status # "none") =>
              SameResult(out[s], Alone(clickData[s], radius[s]))
    /\ \A s, t \in Sessions :
          (pc[s] = "idle" /\ pc[t] = "idle" /\ out[s].status # "none"
              /\ out[t].status # "none"
              /\ clickData[s] = clickData[t] /\ radius[s] = radius[t]) =>
              SameResult(out[s], out[t])

(* a call has returned although another session's call, with another centre, *)
(* wrote the distance column between its lines 158 and 159                    *)
C3_Witness ==
    \E s, t \in Sessions :
        /\ s # t
        /\ Returned(s)
        /\ pc[t] = "L159"
        /\ center[t][well_id_col] # out[s].info[well_id_col]
        /\ \E i \in 1..Len(filtered[s]) :
              /\ filtered[s][i]["distance"] # DistTo(out[s].info, filtered[s][i])
              /\ filtered[s][i]["distance"] = DistTo(center[t], filtered[s][i])
        /\ Len(out[s].table_data) < Len(wells_map)

(* C4: every row of a call's `filtered` frame carries in 'distance' the *)
(* distance to that call's own centre, also when calls interleave.      *)
C4_OwnDistances ==
    \A s \in Sessions : Returned(s) =>
        \A i \in 1..Len(filtered[s]) :
            filtered[s][i]["distance"] = DistTo(out[s].info, filtered[s][i])

(* C5: over an empty wells_map a call completes normally, with an empty *)
(* wells-table and a well count of 0.                                   *)
C5_EmptyTableNoError ==
    \A s \in Sessions :
        (pc[s] = "idle" /\ wells_map = <<>>) =>
            /\ out[s].status = "ok"
            /\ out[s].table_data = <<>>
            /\ out[s].num_wells = 0

C7_CircleClickKeepsCenter ==
    [][\A s \in Sessions :
          (out[s].status = "ok" /\ clickData'[s] = CirclePoint /\ out'[s].status = "ok")
              => out'[s].info = out[s].info]_vars

(* C8: the centre is dark blue, every other well within the radius medium *)
(* blue, every well beyond it brown; exactly one well is dark blue.       *)
C8_MarkerColours ==
    \A s \in Sessions : Returned(s) =>
        LET col == out[s].color_arr
            ctr == out[s].info
        IN /\ Len(col) = Len(wells_map)
           /\ \A i \in 1..Len(wells_map) :
                 col[i] = IF wells_map[i][well_id_col] = ctr[well_id_col] THEN "#1976d2"
                          ELSE IF DistTo(ctr, wells_map[i]) <= Miles(radius[s]) THEN "#64b5f6"
                          ELSE "#a0522d"
           /\ Cardinality({ i \in 1..Len(col) : col[i] = "#1976d2" }) = 1

(* a map showing all three colours *)
C8_Witness ==
    \E s \in Sessions :
        /\ Returned(s)
        /\ \E i, j, k \in 1..Len(out[s].color_arr) :
              /\ out[s].color_arr[i] = "#1976d2"
              /\ out[s].color_arr[j] = "#64b5f6"
              /\ out[s].color_arr[k] = "#a0522d"

(* C9: over a non-empty table every call returns, lists its own centre in *)
(* the wells-table and shows a Number of Wells >= 1.                      *)
C9_CenterInOwnResult ==
    \A s \in Sessions :
        (pc[s] = "idle" /\ wells_map # <<>>) =>
            /\ out[s].status = "ok"
            /\ \E k \in 1..Len(out[s].table_data) : out[s].table_data[k] = out[s].info
            /\ out[s].num_wells >= 1

(* a clicked well that is not at the base point, alone in its result *)
C9_Witness ==
    \E s \in Sessions :
        /\ Returned(s)
        /\ Len(wells_map) > 1
        /\ clickData[s] = WellPoint(out[s].info)
        /\ out[s].info[lat_col] # 0
        /\ out[s].num_wells = 1
        /\ out[s].table_data = <<out[s].info>>

(* C10: the total BOE is the sum, over the production records of the latest *)
(* month whose well is within the radius, of their volumes, each record     *)
(* counted once, also when the header file has two rows for a well.         *)
C10_EachRecordOnce ==
    \A s \in Sessions : Returned(s) =>
        LET ids == { out[s].table_data[k][well_id_col] : k \in 1..Len(out[s].table_data) }
            counted == Mask(prod_df, [i \in 1..Len(prod_df) |->
                            /\ prod_df[i][date_col] = latest_month(df)
                            /\ prod_df[i][well_id_col] \in ids])
        IN out[s].total_boe = SumSeq(Column(counted, prod_col))

====
